---- MODULE Spec2Model ----
(***************************************************************************)
(* A model of speed.py: the Ollama speed test.  One run of main() is a     *)
(* sequence of blocking HTTP exchanges with a server whose answers are     *)
(* nondeterministic: GET /api/version (verify_connection, called by the    *)
(* constructor), GET /api/tags (list_models), then one POST /api/generate  *)
(* per listed model (measure_model_speed), then print_results_table.       *)
(*                                                                         *)
(* JSON objects (Python dicts) are functions whose DOMAIN is the set of    *)
(* keys that are present, so d[k] on a missing key is the KeyError of the  *)
(* code and d.get(k, default) is the operator Get.  Python floats are      *)
(* modelled as exact decimal rationals n * 10^e / d; the strings produced  *)
(* by the ":.2f" format are computed digit for digit.                      *)
(***************************************************************************)
EXTENDS Integers, Sequences, FiniteSets, TLC

(***************************************************************************)
(* Bounds of the model.                                                    *)
(***************************************************************************)
\* the longest model list the server answers with
MaxModels == 2

(***************************************************************************)
(* Arithmetic: exact rationals with a decimal exponent, n * 10^e / d, in   *)
(* canonical form (n and d coprime, 10 does not divide n, d is coprime to  *)
(* 10), so that equal numbers are equal records.                           *)
(***************************************************************************)
RECURSIVE GCD(_, _)
GCD(a, b) == IF b = 0 THEN a ELSE GCD(b, a % b)

RECURSIVE Pow10(_)
Pow10(k) == IF k = 0 THEN 1 ELSE 10 * Pow10(k - 1)

RECURSIVE Canon(_, _, _)
Canon(n, d, e) ==
    IF n = 0 THEN [n |-> 0, d |-> 1, e |-> 0]
    ELSE IF GCD(n, d) > 1 THEN Canon(n \div GCD(n, d), d \div GCD(n, d), e)
    ELSE IF n % 10 = 0 THEN Canon(n \div 10, d, e + 1)
    ELSE IF d % 10 = 0 THEN Canon(n, d \div 10, e - 1)
    ELSE IF d % 2 = 0 THEN Canon(n * 5, d \div 2, e - 1)
    ELSE IF d % 5 = 0 THEN Canon(n * 2, d \div 5, e - 1)
    ELSE [n |-> n, d |-> d, e |-> e]

\* int -> float
FromInt(i) == Canon(i, 1, 0)

\* the float literal 1e9
Float1e9 == Canon(1, 1, 9)

\* x / y for y # 0 (the caller raises ZeroDivisionError when y = 0)
NumDiv(x, y) ==
    LET g1 == GCD(x.n, y.n)
        g2 == GCD(x.d, y.d)
    IN  Canon((x.n \div g1) * (y.d \div g2), (x.d \div g2) * (y.n \div g1), x.e - y.e)

\* x * y
NumMul(x, y) ==
    LET g1 == GCD(x.n, y.d)
        g2 == GCD(y.n, x.d)
    IN  Canon((x.n \div g1) * (y.n \div g2), (x.d \div g2) * (y.d \div g1), x.e + y.e)

\* a / b rounded to the nearest integer, ties to even (a >= 0, b > 0)
RoundHalfEven(a, b) ==
    LET q == a \div b
        r == a % b
    IN  IF 2 * r < b THEN q
        ELSE IF 2 * r > b THEN q + 1
        ELSE IF q % 2 = 0 THEN q ELSE q + 1

RECURSIVE Zeros(_)
Zeros(k) == IF k = 0 THEN "" ELSE "0" \o Zeros(k - 1)

\* f"{x:.2f}" for x >= 0
Format2f(x) ==
    IF x.d = 1 /\ x.e >= 0
    THEN ToString(x.n) \o Zeros(x.e) \o ".00"
    ELSE LET h == IF x.e + 2 >= 0
                  THEN RoundHalfEven(x.n * Pow10(x.e + 2), x.d)
                  ELSE RoundHalfEven(x.n, x.d * Pow10(-(x.e + 2)))
             c == h % 100
         IN  ToString(h \div 100) \o "." \o (IF c < 10 THEN "0" ELSE "") \o ToString(c)

(***************************************************************************)
(* Python dicts.                                                           *)
(***************************************************************************)
\* key in d
Has(d, k) == k \in DOMAIN d

\* d.get(k, default)
Get(d, k, default) == IF k \in DOMAIN d THEN d[k] ELSE default

\* a dict with (at most) the key k: opt is {} (key absent) or {v}
Field(k, opt) == [x \in {y \in {k} : opt # {}} |-> CHOOSE v \in opt : TRUE]

(***************************************************************************)
(* What the server may answer.  A requests call either raises (kind        *)
(* "timeout", "connection_error", "exception") or returns a response with  *)
(* a status code and a body; response.json() raises on a "badjson" body,   *)
(* and yields a list on a "list" body or the dict `data` on a "dict" body. *)
(***************************************************************************)
Raises(kind) == [kind |-> kind]

Response(status, body) == [kind |-> "response", status |-> status, body |-> body]

BadJson == [json |-> "badjson"]

JsonList == [json |-> "list"]

JsonDict(data) == [json |-> "dict", data |-> data]

\* GET /api/version
VersionResponses ==
    {Raises("timeout"), Raises("connection_error"), Raises("exception")}
    \cup {Response(200, JsonDict(Field("version", o))) : o \in {{}, {"0.1.0"}}}
    \cup {Response(200, BadJson), Response(200, JsonList)}
    \cup {Response(s, JsonDict(Field("version", {}))) : s \in {404, 500}}

\* a complete entry of the "models" list
ModelEntry(name, size, details) ==
    Field("name", {name}) @@ Field("size", {size}) @@ Field("details", {details})

\* d without the key k
Without(d, k) == [x \in DOMAIN d \ {k} |-> d[x]]

\* the entries of the "models" list: complete ones (family or parameter_size
\* may be missing from details), and ones lacking name, size or details
ModelEntries ==
    LET phi3 == ModelEntry("phi3", 5242880,
                           Field("family", {"phi3"}) @@ Field("parameter_size", {"3.8B"}))
    IN  {ModelEntry("llama3", 2000000000, Field("family", {"llama"})),
         ModelEntry("llama3", 2000000000, Field("parameter_size", {"8B"})),
         phi3}
        \cup {Without(phi3, k) : k \in {"name", "size", "details"}}

RECURSIVE SeqsUpTo(_, _)
SeqsUpTo(S, k) ==
    IF k = 0 THEN {<<>>}
    ELSE LET shorter == SeqsUpTo(S, k - 1)
         IN  shorter \cup {Append(q, x) : q \in {r \in shorter : Len(r) = k - 1}, x \in S}

\* GET /api/tags
TagsResponses ==
    {Raises("connection_error")}
    \cup {Response(s, JsonDict(<<>>)) : s \in {404, 500}}
    \cup {Response(200, BadJson), Response(200, JsonList), Response(200, JsonDict(<<>>))}
    \cup {Response(200, JsonDict(Field("models", {ms}))) : ms \in SeqsUpTo(ModelEntries, MaxModels)}

\* the "response" field of a generate answer: a string (by its length) or null
JsonString(len) == [type |-> "str", len |-> len]

JsonNull == [type |-> "null"]

\* the body of a generate answer
GenerateDicts ==
    {Field("eval_count", c) @@ Field("eval_duration", d) @@ Field("response", r) :
        c \in {{}, {0}, {100}},
        d \in {{}, {0}, {2000000000}, {1500000000}},
        r \in {{}, {JsonString(16)}, {JsonNull}}}

\* POST /api/generate
GenerateResponses ==
    {Raises("connection_error")}
    \cup {Response(s, b) : s \in {200, 500}, b \in {BadJson, JsonList}}
    \cup {Response(s, JsonDict(data)) : s \in {200, 500}, data \in GenerateDicts}

(***************************************************************************)
(* The methods of OllamaConnection, as functions of the server's answer.   *)
(* A call ends in one of three ways: it returns, it raises, or it leaves   *)
(* the process through sys.exit.                                           *)
(***************************************************************************)
Return(value) == [outcome |-> "return", value |-> value]

Raise(exc) == [outcome |-> "raise", exc |-> exc]

Exit(code) == [outcome |-> "exit", code |-> code]

\* the exception raised inside the try block of verify_connection, or "none"
verify_try(resp) ==
    IF resp.kind = "timeout" THEN "requests.Timeout"
    ELSE IF resp.kind = "connection_error" THEN "requests.ConnectionError"
    ELSE IF resp.kind = "exception" THEN "Exception"
    ELSE IF resp.status = 200
         THEN IF resp.body.json = "badjson" THEN "JSONDecodeError"
              ELSE IF resp.body.json = "list" THEN "AttributeError"
              ELSE "none"
         ELSE "ConnectionError"

\* verify_connection whose last handler re-raises instead of leaving the process
verify_connection_reraise(resp) ==
    LET exc == verify_try(resp)
    IN  IF exc = "none" THEN Return("Connected")
        ELSE IF exc = "requests.Timeout" THEN Exit(1)
        ELSE IF exc = "requests.ConnectionError" THEN Exit(1)
        ELSE Raise(exc)

\* verify_connection: each of the three handlers ends in sys.exit(1)
verify_connection(resp) ==
    LET exc == verify_try(resp)
    IN  IF exc = "none" THEN Return("Connected")
        ELSE IF exc = "requests.Timeout" THEN Exit(1)
        ELSE IF exc = "requests.ConnectionError" THEN Exit(1)
        ELSE Exit(1)

\* size / 2^k as f"{...:.2f}", for size >= 0
FormatShifted(size_bytes, unit) ==
    LET g  == GCD(size_bytes, unit)
        a  == size_bytes \div g
        b  == unit \div g
        g2 == GCD(100, b)
        h  == RoundHalfEven(a * (100 \div g2), b \div g2)
        c  == h % 100
    IN  ToString(h \div 100) \o "." \o (IF c < 10 THEN "0" ELSE "") \o ToString(c)

format_size(size_bytes) ==
    IF size_bytes >= 1024 * 1024 * 1024
    THEN FormatShifted(size_bytes, 1024 * 1024 * 1024) \o " GB"
    ELSE FormatShifted(size_bytes, 1024 * 1024) \o " MB"

\* list_models that raises on a status other than 200
list_models_raise_for_status(resp) ==
    IF resp.kind # "response" THEN Raise("requests.ConnectionError")
    ELSE IF resp.status = 200
         THEN IF resp.body.json = "badjson" THEN Raise("JSONDecodeError")
              ELSE IF resp.body.json = "list" THEN Raise("TypeError")
              ELSE IF Has(resp.body.data, "models") THEN Return(resp.body.data["models"])
              ELSE Raise("KeyError")
         ELSE Raise("ConnectionError")

list_models(resp) ==
    IF resp.kind # "response" THEN Raise("requests.ConnectionError")
    ELSE IF resp.status = 200
         THEN IF resp.body.json = "badjson" THEN Raise("JSONDecodeError")
              ELSE IF resp.body.json = "list" THEN Raise("TypeError")
              ELSE IF Has(resp.body.data, "models") THEN Return(resp.body.data["models"])
              ELSE Raise("KeyError")
         ELSE Return(<<>>)

\* measure_model_speed that takes eval_duration for microseconds
measure_model_speed_micros(resp) ==
    IF resp.kind # "response" THEN Raise("requests.ConnectionError")
    ELSE IF resp.body.json = "badjson" THEN Raise("JSONDecodeError")
    ELSE IF resp.body.json = "list" THEN Raise("AttributeError")
    ELSE LET response_data == resp.body.data
             eval_count == Get(response_data, "eval_count", 0)
             eval_duration == Get(response_data, "eval_duration", 1)
             eval_duration_seconds == NumDiv(FromInt(eval_duration), Canon(1, 1, 6))
         IN  IF eval_duration_seconds.n = 0 THEN Raise("ZeroDivisionError")
             ELSE Return([speed |-> NumDiv(FromInt(eval_count), eval_duration_seconds),
                          response_data |-> response_data])

\* measure_model_speed that rejects a status other than 200
measure_model_speed_checks_status(resp) ==
    IF resp.kind # "response" THEN Raise("requests.ConnectionError")
    ELSE IF resp.status # 200 THEN Raise("requests.HTTPError")
    ELSE IF resp.body.json = "badjson" THEN Raise("JSONDecodeError")
    ELSE IF resp.body.json = "list" THEN Raise("AttributeError")
    ELSE LET response_data == resp.body.data
             eval_count == Get(response_data, "eval_count", 0)
             eval_duration == Get(response_data, "eval_duration", 1)
             eval_duration_seconds == NumDiv(FromInt(eval_duration), Float1e9)
         IN  IF eval_duration_seconds.n = 0 THEN Raise("ZeroDivisionError")
             ELSE Return([speed |-> NumDiv(FromInt(eval_count), eval_duration_seconds),
                          response_data |-> response_data])

measure_model_speed(resp) ==
    IF resp.kind # "response" THEN Raise("requests.ConnectionError")
    ELSE IF resp.body.json = "badjson" THEN Raise("JSONDecodeError")
    ELSE IF resp.body.json = "list" THEN Raise("AttributeError")
    ELSE LET response_data == resp.body.data
             eval_count == Get(response_data, "eval_count", 0)
             eval_duration == Get(response_data, "eval_duration", 1)
             eval_duration_seconds == NumDiv(FromInt(eval_duration), Float1e9)
         IN  IF eval_duration_seconds.n = 0 THEN Raise("ZeroDivisionError")
             ELSE Return([speed |-> NumDiv(FromInt(eval_count), eval_duration_seconds),
                          response_data |-> response_data])

\* add_result that puts the new record first
add_result_insert_first(rs, model_name, size, family, parameters, speed, tokens) ==
    <<("Model" :> model_name) @@ ("Size" :> size) @@ ("Family" :> family)
      @@ ("Parameters" :> parameters) @@ ("Speed (t/s)" :> Format2f(speed))
      @@ ("Tokens" :> tokens)>> \o rs

add_result(rs, model_name, size, family, parameters, speed, tokens) ==
    Append(rs, ("Model" :> model_name) @@ ("Size" :> size) @@ ("Family" :> family)
               @@ ("Parameters" :> parameters) @@ ("Speed (t/s)" :> Format2f(speed))
               @@ ("Tokens" :> tokens))

\* TRUE when the table is printed
print_results_table(rs) == rs # <<>>

\* main, lines 139-145: what the loop reads of a model entry before the try
model_details(model) ==
    IF ~Has(model, "name") THEN Raise("KeyError")
    ELSE IF ~Has(model, "size") THEN Raise("KeyError")
    ELSE IF ~Has(model, "details") THEN Raise("KeyError")
    ELSE Return([model_name |-> model["name"],
                 size |-> format_size(model["size"]),
                 family |-> Get(model["details"], "family", "unknown"),
                 parameters |-> Get(model["details"], "parameter_size", "unknown")])

\* main, lines 151-164: the try block of one model, given what its
\* measure_model_speed call did; the new results, or the exception caught
benchmark(rs, d, m) ==
    IF m.outcome = "raise" THEN m
    ELSE LET speed == m.value.speed
             response_data == m.value.response_data
             tokens == Get(response_data, "eval_count", 0)
         IN  IF Get(response_data, "response", JsonString(0)).type # "str"
             THEN Raise("TypeError")
             ELSE Return(add_result(rs, d.model_name, d.size, d.family, d.parameters,
                                    speed, tokens))

(***************************************************************************)
(* The run of main().                                                      *)
(***************************************************************************)
VARIABLES
    pc,            \* where the run is: "Unconnected", "Connected", "Enumerated",
                   \* "Reported", "Aborted" (sys.exit) or "Failed" (a handler of main)
    exit_status,   \* {} while the process runs, {code} once it has ended
    caught,        \* the except clause of main that ended the run, or "none"
    requests,      \* the HTTP requests issued so far, in order
    response,      \* the answer to the latest request
    models,        \* main's `models`
    index,         \* the position of the for loop (1-based, as enumerate(models, 1))
    results,       \* OllamaConnection.results
    outcome,       \* per processed model: "Benchmarked" or "Skipped"
    measured,      \* what the latest measure_model_speed call did
    table_printed  \* whether print_results_table has printed the table

vars == <<pc, exit_status, caught, requests, response, models, index, results, outcome,
          measured, table_printed>>

NoResponse == [kind |-> "none"]

NotCalled == [outcome |-> "none"]

Init ==
    /\ pc = "Unconnected"
    /\ exit_status = {}
    /\ caught = "none"
    /\ requests = <<>>
    /\ response = NoResponse
    /\ models = <<>>
    /\ index = 1
    /\ results = <<>>
    /\ outcome = <<>>
    /\ measured = NotCalled
    /\ table_printed = FALSE

\* main's handlers (lines 169-172): print the error; the script then ends normally
MainCatches(exc) ==
    /\ pc' = "Failed"
    /\ caught' = (IF exc = "ConnectionError" THEN "except ConnectionError"
                  ELSE "except Exception")
    /\ exit_status' = {0}

\* OllamaConnection(host, port): the constructor calls verify_connection
Connect ==
    /\ pc = "Unconnected"
    /\ \E resp \in VersionResponses :
        LET v == verify_connection(resp)
        IN  /\ requests' = Append(requests, <<"GET", "/api/version">>)
            /\ response' = resp
            /\ IF v.outcome = "return"
               THEN pc' = "Connected" /\ UNCHANGED <<exit_status, caught>>
               ELSE IF v.outcome = "exit"
               THEN pc' = "Aborted" /\ exit_status' = {v.code} /\ UNCHANGED caught
               ELSE MainCatches(v.exc)
    /\ UNCHANGED <<models, index, results, outcome, measured, table_printed>>

\* models = ollama.list_models()
ListModels ==
    /\ pc = "Connected"
    /\ \E resp \in TagsResponses :
        LET l == list_models(resp)
        IN  /\ requests' = Append(requests, <<"GET", "/api/tags">>)
            /\ response' = resp
            /\ IF l.outcome = "return"
               THEN pc' = "Enumerated" /\ models' = l.value /\ UNCHANGED <<exit_status, caught>>
               ELSE MainCatches(l.exc) /\ UNCHANGED models
    /\ UNCHANGED <<index, results, outcome, measured, table_printed>>

\* one iteration of the for loop whose entry lacks a key read before the try
LoopRaises ==
    /\ pc = "Enumerated"
    /\ index <= Len(models)
    /\ model_details(models[index]).outcome = "raise"
    /\ MainCatches(model_details(models[index]).exc)
    /\ UNCHANGED <<requests, response, models, index, results, outcome, measured,
                   table_printed>>

\* one iteration of the for loop that reaches the try block
BenchmarkModel ==
    /\ pc = "Enumerated"
    /\ index <= Len(models)
    /\ LET md == model_details(models[index])
       IN  /\ md.outcome = "return"
           /\ \E resp \in GenerateResponses :
                LET m == measure_model_speed(resp)
                    b == benchmark(results, md.value, m)
                IN  /\ requests' = Append(requests, <<"POST", "/api/generate",
                                                      md.value.model_name>>)
                    /\ response' = resp
                    /\ measured' = m
                    /\ IF b.outcome = "return"
                       THEN results' = b.value /\ outcome' = Append(outcome, "Benchmarked")
                       ELSE results' = results /\ outcome' = Append(outcome, "Skipped")
    /\ index' = index + 1
    /\ UNCHANGED <<pc, exit_status, caught, models, table_printed>>

\* ollama.print_results_table(), after the loop; main then returns
Report ==
    /\ pc = "Enumerated"
    /\ index > Len(models)
    /\ pc' = "Reported"
    /\ table_printed' = print_results_table(results)
    /\ exit_status' = {0}
    /\ UNCHANGED <<caught, requests, response, models, index, results, outcome, measured>>

Next ==
    \/ Connect
    \/ ListModels
    \/ LoopRaises
    \/ BenchmarkModel
    \/ Report

Spec == Init /\ [][Next]_vars

(***************************************************************************)
(* Vocabulary of the properties.                                           *)
(***************************************************************************)
VersionRequest == <<"GET", "/api/version">>

TagsRequest == <<"GET", "/api/tags">>

GenerateRequest(model_name) == <<"POST", "/api/generate", model_name>>

IsGenerate(req) == Len(req) = 3 /\ req[2] = "/api/generate"

\* the run has ended
Terminated == exit_status # {}

\* `response` answers the version request / the tags request / a generate request
AfterVersion == Len(requests) = 1

AfterTags == Len(requests) = 2

AfterGenerate == Len(requests) >= 3

\* the latest answer carries a JSON object
HasDict == response.kind = "response" /\ response.body.json = "dict"

\* the version request timed out, failed to connect, answered a status other
\* than 200, or made verify_connection raise anything else
VersionFailed ==
    /\ AfterVersion
    /\ \/ response.kind \in {"timeout", "connection_error", "exception"}
       \/ response.kind = "response" /\ response.status # 200
       \/ response.kind = "response" /\ response.body.json # "dict"

\* the positions of the models that got a record, in enumeration order
RECURSIVE BenchmarkedUpTo(_)
BenchmarkedUpTo(i) ==
    IF i = 0 THEN <<>>
    ELSE IF outcome[i] = "Benchmarked" THEN Append(BenchmarkedUpTo(i - 1), i)
    ELSE BenchmarkedUpTo(i - 1)

Benchmarked == BenchmarkedUpTo(Len(outcome))

\* the generate requests issued so far, as model names
GenerateNames == [i \in 1..(Len(requests) - 2) |-> requests[i + 2][3]]

\* the latest generate answer, when it carries a JSON object
Data == response.body.data

\* its "response" field is absent or a string, so that len() of it succeeds
ResponseSized == Get(Data, "response", JsonString(0)).type = "str"

\* the latest model was skipped / got a record
LastSkipped == outcome # <<>> /\ outcome[Len(outcome)] = "Skipped"

LastBenchmarked == outcome # <<>> /\ outcome[Len(outcome)] = "Benchmarked"

LastResult == results[Len(results)]

(***************************************************************************)
(* C1.  Fail-fast connectivity check: when the version request times out,  *)
(* fails to connect, answers a status other than 200 or makes              *)
(* verify_connection raise anything else, the process has ended with exit  *)
(* status 1 straight from verify_connection (no handler of main ran), the  *)
(* version request is the only request of the run, and nothing more can    *)
(* happen.                                                                 *)
(***************************************************************************)
C1_FailFast ==
    /\ VersionFailed =>
        /\ pc = "Aborted"
        /\ exit_status = {1}
        /\ caught = "none"
    /\ pc = "Aborted" =>
        /\ requests = <<VersionRequest>>
        /\ ~ENABLED Next

C1_Witness == pc = "Aborted" /\ response.kind = "timeout" /\ exit_status = {1}

(***************************************************************************)
(* C7.  Enumeration failure is non-fatal: after a listing answer with a    *)
(* status other than 200, and after a 200 answer with an empty list, the   *)
(* models are the empty list, no generate request is issued, results stay  *)
(* empty, the run does not exit with a non-zero status nor through a       *)
(* handler of main, the report step is the next step, and it prints no     *)
(* table.                                                                  *)
(***************************************************************************)
EmptyListing ==
    /\ AfterTags
    /\ response.kind = "response"
    /\ \/ response.status # 200
       \/ /\ response.status = 200
          /\ response.body.json = "dict"
          /\ Has(response.body.data, "models")
          /\ response.body.data["models"] = <<>>

C7_EnumerationFailureNonFatal ==
    EmptyListing =>
        /\ models = <<>>
        /\ results = <<>>
        /\ pc \in {"Enumerated", "Reported"}
        /\ caught = "none"
        /\ exit_status \subseteq {0}
        /\ ~table_printed
        /\ pc = "Enumerated" => ENABLED Report /\ ~ENABLED BenchmarkModel
        /\ pc = "Reported" => Terminated

C7_Witness ==
    /\ pc = "Reported"
    /\ AfterTags
    /\ response.kind = "response"
    /\ response.status = 500
    /\ ~table_printed

(***************************************************************************)
(* C8.  Throughput formula: for a generate answer with eval_duration > 0,  *)
(* measure_model_speed returns a speed with                                *)
(* speed * eval_duration = eval_count * 10^9 (eval_count 0 when absent);   *)
(* eval_count 100 with eval_duration 2000000000 gives 50, stored as        *)
(* "50.00".                                                                *)
(***************************************************************************)
C8_ThroughputFormula ==
    (AfterGenerate /\ HasDict /\ Has(Data, "eval_duration") /\ Data["eval_duration"] > 0) =>
        /\ measured.outcome = "return"
        /\ NumMul(measured.value.speed, FromInt(Data["eval_duration"]))
             = NumMul(FromInt(Get(Data, "eval_count", 0)), Float1e9)
        /\ (Get(Data, "eval_count", 0) = 100 /\ Data["eval_duration"] = 2000000000) =>
            /\ measured.value.speed = FromInt(50)
            /\ LastBenchmarked => LastResult["Speed (t/s)"] = "50.00"

C8_Witness ==
    /\ AfterGenerate
    /\ HasDict
    /\ Get(Data, "eval_count", 0) = 100
    /\ Get(Data, "eval_duration", 0) = 1500000000
    /\ LastBenchmarked
    /\ LastResult["Speed (t/s)"] = "66.67"

(***************************************************************************)
(* C2.  Per-model failure isolation: once the benchmark of a model has     *)
(* failed, the skipped model has no record, and the run still sends every  *)
(* later model its generate request and ends in the report step.           *)
(***************************************************************************)
SomeSkipped == \E i \in 1..Len(outcome) : outcome[i] = "Skipped"

C2_FailureIsolation ==
    SomeSkipped =>
        /\ Len(results) = Len(Benchmarked)
        /\ Terminated =>
            /\ pc = "Reported"
            /\ Len(outcome) = Len(models)
            /\ GenerateNames = [i \in 1..Len(models) |-> models[i]["name"]]

(***************************************************************************)
(* C3.  Whole-run state machine: a run is Unconnected, Connected,          *)
(* Enumerated, Reported or Aborted; it ends Reported or Aborted only, and  *)
(* Aborted is entered from Unconnected only.                               *)
(***************************************************************************)
C3_RunStateMachine ==
    /\ pc \in {"Unconnected", "Connected", "Enumerated", "Reported", "Aborted"}
    /\ Terminated => pc \in {"Reported", "Aborted"}
    /\ pc = "Aborted" => requests = <<VersionRequest>> /\ exit_status = {1}
    /\ pc = "Reported" => exit_status = {0} /\ Len(outcome) = Len(models)

(***************************************************************************)
(* C4.  Result collection: results holds exactly one record for each model *)
(* processed so far whose try block (the generation call and the printing  *)
(* of its metrics) completed without raising, and none for any other; the  *)
(* records are in enumeration order, and a record once appended is never   *)
(* changed, moved or removed.                                              *)
(***************************************************************************)
\* the try block of the latest model ran to its end
TryCompleted == measured.outcome = "return" /\ ResponseSized

\* results[k] is the record of the k-th model that got one
RecordOf(k) ==
    LET model == models[Benchmarked[k]]
    IN  /\ results[k]["Model"] = model["name"]
        /\ results[k]["Size"] = format_size(model["size"])
        /\ results[k]["Family"] = Get(model["details"], "family", "unknown")
        /\ results[k]["Parameters"] = Get(model["details"], "parameter_size", "unknown")

C4_Collected ==
    /\ Len(outcome) <= Len(models)
    /\ pc \in {"Enumerated", "Reported"} => Len(outcome) = index - 1
    /\ Len(results) = Len(Benchmarked)
    /\ \A k \in 1..Len(results) : RecordOf(k)
    /\ AfterGenerate =>
        /\ LastBenchmarked <=> TryCompleted
        /\ LastBenchmarked =>
            /\ LastResult["Tokens"] = Get(Data, "eval_count", 0)
            /\ LastResult["Speed (t/s)"] = Format2f(measured.value.speed)

C4_AppendOnly ==
    /\ Len(results') \in {Len(results), Len(results) + 1}
    /\ SubSeq(results', 1, Len(results)) = results

C4_ResultCollection == []C4_Collected /\ [][C4_AppendOnly]_vars

C4_Witness ==
    /\ pc = "Reported"
    /\ Len(results) = 2
    /\ results[1]["Model"] = "llama3"
    /\ results[2]["Model"] = "phi3"

\* C4 as first stated: a record for exactly the models whose generation call
\* (measure_model_speed) completed without raising
C4_RecordIffCallReturned ==
    AfterGenerate => (LastBenchmarked <=> measured.outcome = "return")

(***************************************************************************)
(* C5.  Zero or missing duration: for a generate answer whose              *)
(* eval_duration is absent or 0, measure_model_speed returns               *)
(* speed = eval_count * 1e9 without raising, and the model gets a record.  *)
(***************************************************************************)
C5_ZeroOrMissingDuration ==
    (AfterGenerate /\ HasDict /\ Get(Data, "eval_duration", 0) = 0 /\ ResponseSized) =>
        /\ measured.outcome = "return"
        /\ measured.value.speed = NumMul(FromInt(Get(Data, "eval_count", 0)), Float1e9)
        /\ LastBenchmarked

(***************************************************************************)
(* C6.  Missing metadata never errors: an entry of the listing that lacks  *)
(* name, size, details, family or parameter_size raises no error, the      *)
(* missing field reads "unknown", and the entry and those after it are     *)
(* still benchmarked and the report step still runs.                       *)
(***************************************************************************)
C6_MissingMetadataNeverErrors ==
    /\ ~(pc = "Failed" /\ models # <<>>)
    /\ \A k \in 1..Len(results) :
        /\ ~Has(models[Benchmarked[k]]["details"], "family")
            => results[k]["Family"] = "unknown"
        /\ ~Has(models[Benchmarked[k]]["details"], "parameter_size")
            => results[k]["Parameters"] = "unknown"
    /\ (Terminated /\ models # <<>>) =>
        /\ pc = "Reported"
        /\ Len(outcome) = Len(models)

(***************************************************************************)
(* C9.  Missing token count: for a generate answer without eval_count,     *)
(* whatever its eval_duration, measure_model_speed returns speed 0, and    *)
(* the record stored for the model has token count 0.                      *)
(***************************************************************************)
C9_MissingTokenCount ==
    (AfterGenerate /\ HasDict /\ ~Has(Data, "eval_count")) =>
        /\ measured.outcome = "return"
        /\ measured.value.speed = FromInt(0)
        /\ LastBenchmarked =>
            /\ LastResult["Tokens"] = 0
            /\ LastResult["Speed (t/s)"] = "0.00"

====
